---- MODULE Spec2Model ----
(***************************************************************************)
(* Model of the namespace emulation layer of appz.py: a folder/file view   *)
(* over a flat object store (bucket -> key -> bytes).  Strings are         *)
(* sequences of one-character strings, so that strip, split, join,         *)
(* basename and endswith are computed as the Python code computes them.    *)
(* Every store call (list, upload, download, remove) is one step, and may  *)
(* fail within a failure budget.                                           *)
(***************************************************************************)
EXTENDS Integers, Sequences, FiniteSets, TLC

\* ------------------------------------------------------------------ bounds
MaxFailures == 1   \* store calls that may fail during one request
MaxDepth == 3      \* frames of a recursive walk before RecursionError

\* ----------------------------------------------------------------- strings
SL == "/"
Empty == << >>
DotKeep == <<".", "k", "e", "e", "p">>

\* the characters that occur in the modelled inputs, in ASCII order
Alphabet == <<"\t", " ", "*", ".", "/", "1", "a", "b", "c", "e", "k", "p">>

CharRank(c) == CHOOSE i \in 1..Len(Alphabet) : Alphabet[i] = c

RECURSIVE LexLess(_, _)
LexLess(s, t) ==
    IF t = Empty THEN FALSE
    ELSE IF s = Empty THEN TRUE
    ELSE IF Head(s) = Head(t) THEN LexLess(Tail(s), Tail(t))
    ELSE CharRank(Head(s)) < CharRank(Head(t))

RECURSIVE LStrip(_)
LStrip(s) == IF s # Empty /\ Head(s) = SL THEN LStrip(Tail(s)) ELSE s

RECURSIVE RStrip(_)
RStrip(s) ==
    IF s # Empty /\ s[Len(s)] = SL THEN RStrip(SubSeq(s, 1, Len(s) - 1)) ELSE s

\* str.strip("/")
Strip(s) == RStrip(LStrip(s))

\* str.endswith(suf)
EndsWith(s, suf) ==
    /\ Len(s) >= Len(suf)
    /\ SubSeq(s, Len(s) - Len(suf) + 1, Len(s)) = suf

\* str.startswith(pre)
StartsWith(s, pre) ==
    /\ Len(s) >= Len(pre)
    /\ SubSeq(s, 1, Len(pre)) = pre

\* str.split("/"): the pieces between slashes, empty pieces included
RECURSIVE SplitOn(_, _)
SplitOn(s, cur) ==
    IF s = Empty THEN <<cur>>
    ELSE IF Head(s) = SL THEN <<cur>> \o SplitOn(Tail(s), Empty)
    ELSE SplitOn(Tail(s), Append(cur, Head(s)))

\* "/".join(items)
RECURSIVE JoinSlash(_)
JoinSlash(items) ==
    IF items = << >> THEN Empty
    ELSE IF Len(items) = 1 THEN items[1]
    ELSE items[1] \o <<SL>> \o JoinSlash(Tail(items))

\* the pieces kept even when empty
split_path_KeepsEmpty(path) == SplitOn(Strip(path), Empty)

split_path(path) == SelectSeq(SplitOn(Strip(path), Empty), LAMBDA p : p # Empty)

RECURSIVE JoinItems(_)
JoinItems(parts) ==
    IF parts = << >> THEN << >>
    ELSE (IF parts[1] = Empty THEN << >> ELSE split_path(parts[1]))
         \o JoinItems(Tail(parts))

join_path(parts) == JoinSlash(JoinItems(parts))

\* os.path.basename: what follows the last slash
basename(p) == LET pieces == SplitOn(p, Empty) IN pieces[Len(pieces)]

\* the character classes of VALID_SEGMENT
Letters ==
    {"a", "b", "c", "d", "e", "f", "g", "h", "i", "j", "k", "l", "m", "n", "o", "p", "q",
     "r", "s", "t", "u", "v", "w", "x", "y", "z", "A", "B", "C", "D", "E", "F", "G", "H",
     "I", "J", "K", "L", "M", "N", "O", "P", "Q", "R", "S", "T", "U", "V", "W", "X", "Y",
     "Z"}
Digits == {"0", "1", "2", "3", "4", "5", "6", "7", "8", "9"}
Marks == {".", "_", "#", "@", "+", "-"}
\* what \s matches
Whitespace == {" ", "\t", "\n", "\r", "\f"}

FirstChars == Letters \cup Digits \cup Marks
RestChars == Letters \cup Digits \cup Marks \cup Whitespace

\* VALID_SEGMENT.match(seg): ^[A-Za-z0-9._#@+-][A-Za-z0-9._#@+\-\s]*$
MatchValid(seg) ==
    /\ seg # Empty
    /\ Head(seg) \in FirstChars
    /\ \A i \in 2..Len(seg) : seg[i] \in RestChars

None == "None"

validate_segment(seg) ==
    IF seg = Empty THEN "Name is required."
    ELSE IF seg \in {<<".">>, <<".", ".">>} THEN "Name cannot be '.' or '..'."
    ELSE IF \E i \in 1..Len(seg) : seg[i] = SL THEN "Name cannot contain '/'."
    ELSE IF ~MatchValid(seg) THEN "Invalid characters."
    ELSE None

RECURSIVE WsLStrip(_)
WsLStrip(s) == IF s # Empty /\ Head(s) \in Whitespace THEN WsLStrip(Tail(s)) ELSE s

RECURSIVE WsRStrip(_)
WsRStrip(s) ==
    IF s # Empty /\ s[Len(s)] \in Whitespace THEN WsRStrip(SubSeq(s, 1, Len(s) - 1)) ELSE s

\* str.strip()
WsStrip(s) == WsRStrip(WsLStrip(s))


\* ------------------------------------------------------------- object store
Buckets == {"b1", "b2"}
ListLimit == 1000

kA == <<"a">>
kB == <<"b">>
kC == <<"c">>
kBA == <<"b", "/", "a">>
kBB == <<"b", "/", "b">>
kBBA == <<"b", "/", "b", "/", "a">>
kBKeep == <<"b", "/", ".", "k", "e", "e", "p">>
kBAKeepA == <<"b", "/", "a", ".", "k", "e", "e", "p", "/", "a">>
kBa == <<"b", "a">>
kCKeep == <<"c", "/", ".", "k", "e", "e", "p">>

\* the contents the objects of the initial stores hold
Content0 ==
    [b \in Buckets |->
        IF b = "b1"
        THEN [k \in {kA, kBA, kBBA, kBKeep, kBAKeepA, kBa} |->
                CASE k = kA -> << >>
                  [] k = kBA -> <<1>>
                  [] k = kBBA -> << >>
                  [] k = kBKeep -> << >>
                  [] k = kBAKeepA -> <<4>>
                  [] OTHER -> <<5>>]
        ELSE [k \in {kBA, kCKeep} |->
                CASE k = kBA -> <<3>>
                  [] OTHER -> << >>]]

\* b1 holds any part of the folder b, with or without the two root files;
\* b2 is empty or holds both of its objects
InitStores ==
    { [b \in Buckets |-> [k \in (IF b = "b1" THEN S1 \cup X1 ELSE S2) |-> Content0[b][k]]] :
        S1 \in SUBSET {kBA, kBBA, kBKeep, kBAKeepA},
        X1 \in {{}, {kA, kBa}},
        S2 \in {{}, DOMAIN Content0["b2"]} }

Has(st, b, k) == b \in DOMAIN st /\ k \in DOMAIN st[b]

\* upload(key, data), overwriting
Put(st, b, k, d) ==
    [st EXCEPT ![b] = [x \in (DOMAIN st[b]) \cup {k} |-> IF x = k THEN d ELSE st[b][x]]]

\* remove([key]); removing an absent key changes nothing
Del(st, b, k) ==
    [st EXCEPT ![b] = [x \in (DOMAIN st[b]) \ {k} |-> st[b][x]]]

\* the keys below the folder pfx
Under(st, b, pfx) ==
    { k \in DOMAIN st[b] : pfx = Empty \/ StartsWith(k, pfx \o <<SL>>) }

RelKey(k, pfx) == IF pfx = Empty THEN k ELSE SubSeq(k, Len(pfx) + 2, Len(k))

\* one listing record: an object directly in the folder carries an id and a
\* size, a deeper key shows as a folder record that has neither
EntryOf(st, b, k, pfx) ==
    LET pieces == SplitOn(RelKey(k, pfx), Empty) IN
    IF Len(pieces) = 1
    THEN [name |-> pieces[1], hasSize |-> TRUE, size |-> Len(st[b][k]), hasId |-> TRUE]
    ELSE [name |-> pieces[1], hasSize |-> FALSE, size |-> 0, hasId |-> FALSE]

EntryBefore(e, o) ==
    \/ LexLess(e.name, o.name)
    \/ e.name = o.name /\ ~e.hasId /\ o.hasId

RECURSIVE SortEntries(_)
SortEntries(S) ==
    IF S = {} THEN << >>
    ELSE LET m == CHOOSE e \in S : \A o \in S \ {e} : EntryBefore(e, o)
         IN <<m>> \o SortEntries(S \ {m})

\* every entry of the folder pfx, ascending by name
ListAll(st, b, pfx) ==
    SortEntries({ EntryOf(st, b, k, pfx) : k \in Under(st, b, pfx) })

\* list(prefix, {limit: 1000, offset: 0}): the first page only
List(st, b, pfx) ==
    LET all == ListAll(st, b, pfx)
    IN SubSeq(all, 1, IF Len(all) < ListLimit THEN Len(all) ELSE ListLimit)

\* the page leaves entries out
Truncated(st, b, pfx) == Len(ListAll(st, b, pfx)) > ListLimit

\* the heuristic without its id test
IsFolderEntry_IgnoresId(e) ==
    /\ (~e.hasSize \/ e.size = 0)
    /\ ~EndsWith(e.name, DotKeep)

\* the folder heuristic of the recursive walkers
IsFolderEntry(e) ==
    /\ (~e.hasSize \/ e.size = 0)
    /\ ~e.hasId
    /\ ~EndsWith(e.name, DotKeep)

\* list_items without the trailing-slash rule
ItemOf_NoSlashRule(e) ==
    LET is_folder == (~e.hasSize \/ e.size = 0) /\ ~EndsWith(e.name, DotKeep) /\ ~e.hasId
    IN IF is_folder
       THEN [name |-> e.name, is_folder |-> TRUE, hasSize |-> FALSE, size |-> 0]
       ELSE [name |-> e.name, is_folder |-> FALSE, hasSize |-> e.hasSize, size |-> e.size]

\* list_items, lines 102-114: the Item made of one listing entry
ItemOf(e) ==
    LET heuristic == (~e.hasSize \/ e.size = 0) /\ ~EndsWith(e.name, DotKeep) /\ ~e.hasId
        slash == e.name # Empty /\ EndsWith(e.name, <<SL>>)
        is_folder == heuristic \/ slash
        name == IF slash THEN RStrip(e.name) ELSE e.name
    IN IF is_folder
       THEN [name |-> name, is_folder |-> TRUE, hasSize |-> FALSE, size |-> 0]
       ELSE [name |-> name, is_folder |-> FALSE, hasSize |-> e.hasSize, size |-> e.size]

\* list_items, lines 99-115: folders and files of a listing response
RECURSIVE Classify(_)
Classify(entries) ==
    IF entries = << >> THEN [folders |-> << >>, files |-> << >>]
    ELSE LET item == ItemOf(Head(entries))
             rest == Classify(Tail(entries))
         IN IF item.is_folder
            THEN [folders |-> <<item>> \o rest.folders, files |-> rest.files]
            ELSE [folders |-> rest.folders, files |-> <<item>> \o rest.files]

list_items(st, bucket, pfx) == Classify(List(st, bucket, Strip(pfx)))


\* ------------------------------------------------------------------- state
VARIABLES
    store,      \* bucket -> key -> bytes
    store0,     \* the store when the request started
    pc,         \* position of the request handler
    req,        \* the submitted form
    stack,      \* frames of the running recursive walk, innermost last
    deleted,    \* delete_prefix_recursive: deleted
    errors,     \* delete_prefix_recursive: errors
    copied,     \* copy_folder_recursive: copied
    cerrors,    \* copy_folder_recursive: errors
    delRet,     \* delete_prefix_recursive has returned
    copyRet,    \* copy_folder_recursive has returned
    dst_full,   \* transfer: the resolved destination
    buf,        \* copy_file: the downloaded bytes
    fails,      \* store calls that failed so far
    calls,      \* the store calls issued by the request, in order
    flashes,    \* the messages flashed by the request, in order
    exc,        \* an exception left the handler uncaught
    truncated,  \* a listing of the request had more entries than one page
    prefix,     \* delete_prefix_recursive: the prefix it was called with
    del0,       \* the store when delete_prefix_recursive was called
    outer,      \* empty_bucket: the top-level entries still to process
    visited,    \* the file entries the walks of the request have listed
    other,      \* the request that runs beside this one, while it waits
    arg,        \* the input of a helper applied on its own
    res         \* what the helper returned

vars == <<store, store0, pc, req, stack, deleted, errors, copied, cerrors,
          delRet, copyRet, dst_full, buf, fails, calls, flashes, exc, truncated,
          prefix, del0, outer, visited, other, arg, res>>

NoReq == [kind |-> "none", op |-> "", is_folder |-> FALSE, src_bucket |-> "",
          dst_bucket |-> "", src_path |-> Empty, dst_path |-> Empty,
          raw_src |-> Empty, raw_dst |-> Empty, name |-> Empty, raw_name |-> Empty]

NoArg == [fn |-> "none"]
NoVisit == [c |-> << >>, d |-> << >>]
NoOther == [pc |-> "none"]

Flash(cat, msg) == [cat |-> cat, msg |-> msg]
Call(op, b, k, ok) == [op |-> op, bucket |-> b, key |-> k, ok |-> ok]
Frame(src, dst, phase) == [src |-> src, dst |-> dst, phase |-> phase, entries |-> << >>]

Top == stack[Len(stack)]
SetTop(f) == [stack EXCEPT ![Len(stack)] = f]
Pop == SubSeq(stack, 1, Len(stack) - 1)

\* a store call fails only within the failure budget
Outcome(ok) == IF ok THEN fails' = fails ELSE fails < MaxFailures /\ fails' = fails + 1

\* what every specification starts from, but for store, pc, arg and other
InitRest ==
    /\ store0 = store
    /\ req = NoReq
    /\ stack = << >>
    /\ deleted = 0
    /\ errors = << >>
    /\ copied = 0
    /\ cerrors = << >>
    /\ delRet = FALSE
    /\ copyRet = FALSE
    /\ dst_full = Empty
    /\ buf = << >>
    /\ fails = 0
    /\ calls = << >>
    /\ flashes = << >>
    /\ exc = FALSE
    /\ truncated = FALSE
    /\ prefix = Empty
    /\ del0 = store
    /\ outer = << >>
    /\ visited = NoVisit
    /\ res = NoArg

Init ==
    /\ store \in InitStores
    /\ pc = "idle"
    /\ arg = NoArg
    /\ other = NoOther
    /\ InitRest

\* an exception raised inside a walk unwinds every frame; transfer catches it
\* (line 747), empty_bucket swallows it (line 217), delete_prefix does not
Raise ==
    /\ stack' = << >>
    /\ IF req.kind = "transfer"
       THEN /\ flashes' = Append(flashes, Flash("error", "Transfer failed"))
            /\ exc' = FALSE
            /\ pc' = "done"
       ELSE IF req.kind = "delete_bucket"
       THEN /\ flashes' = flashes
            /\ exc' = FALSE
            /\ pc' = "bucket_delete"
       ELSE /\ flashes' = flashes
            /\ exc' = TRUE
            /\ pc' = "done"

\* ---------------------------------------------------- delete_prefix (route)
DeletePaths == { Empty, <<SL>>, kB, <<SL>> \o kB \o <<SL>>, kBB, kC }

\* no guard at all
AtRoot_Never(current_path) == FALSE

\* line 673: if not current_path
AtRoot(current_path) == current_path = Empty

StartDeletePrefix(bucket, raw) ==
    LET current_path == Strip(raw) IN
    /\ pc = "idle"
    /\ req' = [NoReq EXCEPT !.kind = "delete_prefix", !.src_bucket = bucket,
                            !.src_path = current_path, !.raw_src = raw]
    /\ IF AtRoot(current_path)
       THEN /\ flashes' = Append(flashes, Flash("error", "Nothing to delete at root"))
            /\ pc' = "done"
            /\ stack' = stack
       ELSE /\ flashes' = flashes
            /\ pc' = "del_walk"
            /\ stack' = <<Frame(Strip(current_path), Empty, "list")>>
    /\ UNCHANGED <<store, store0, deleted, errors, copied, cerrors, delRet, copyRet,
                   dst_full, buf, fails, calls, exc>>
    /\ UNCHANGED truncated
    /\ prefix' = current_path
    /\ del0' = store
    /\ UNCHANGED <<outer, visited, other, arg, res>>

\* ------------------------------------------------------ entries of a level
\* the entries of a listing the walkers handle as files (lines 138, 180)
FileEntries(entries) == SelectSeq(entries, LAMBDA e : ~IsFolderEntry(e))

\* full = join_path(pfx, name), for each of them
RECURSIVE FullKeys(_, _)
FullKeys(pfx, entries) ==
    IF entries = << >> THEN << >>
    ELSE <<join_path(<<pfx, Head(entries).name>>)>> \o FullKeys(pfx, Tail(entries))

\* src_full and dst_full, for each of them
RECURSIVE FullPairs(_, _, _)
FullPairs(pfx_src, pfx_dst, entries) ==
    IF entries = << >> THEN << >>
    ELSE <<[src |-> join_path(<<pfx_src, Head(entries).name>>),
            dst |-> join_path(<<pfx_dst, RStrip(Head(entries).name)>>)]>>
         \o FullPairs(pfx_src, pfx_dst, Tail(entries))

\* ------------------------------------------------- delete_prefix_recursive
\* _walk_delete: resp = list(pfx)
DelList(ok) ==
    /\ pc = "del_walk" /\ Top.phase = "list"
    /\ Outcome(ok)
    /\ calls' = Append(calls, Call("list", req.src_bucket, Top.src, ok))
    /\ IF ok
       THEN /\ stack' = SetTop([Top EXCEPT !.phase = "loop",
                                           !.entries = List(store, req.src_bucket, Top.src)])
            /\ UNCHANGED <<pc, flashes, exc>>
       ELSE Raise
    /\ UNCHANGED <<store, store0, req, deleted, errors, copied, cerrors, delRet,
                   copyRet, dst_full, buf>>
    /\ truncated' = (truncated \/ (ok /\ Truncated(store, req.src_bucket, Top.src)))
    /\ UNCHANGED <<prefix, del0, outer, other, arg, res>>
    /\ visited' = IF ok
                  THEN [visited EXCEPT !.d = @ \o FullKeys(Top.src,
                            FileEntries(List(store, req.src_bucket, Top.src)))]
                  ELSE visited

\* the name of the entry alone, without the prefix of the frame
DelFull_NameOnly(f) == join_path(<<Head(f.entries).name>>)

\* _walk_delete, line 136: full = join_path(pfx, name)
DelFull(f) == join_path(<<f.src, Head(f.entries).name>>)

\* _walk_delete: a folder entry, recurse
DelRecurse ==
    /\ pc = "del_walk" /\ Top.phase = "loop" /\ Top.entries # << >>
    /\ IsFolderEntry(Head(Top.entries))
    /\ LET full == DelFull(Top) IN
       IF Len(stack) < MaxDepth
       THEN /\ stack' = Append(SetTop([Top EXCEPT !.entries = Tail(Top.entries)]),
                               Frame(full, Empty, "list"))
            /\ UNCHANGED <<pc, flashes, exc>>
       ELSE Raise
    /\ UNCHANGED <<store, store0, req, deleted, errors, copied, cerrors, delRet,
                   copyRet, dst_full, buf, fails, calls>>
    /\ UNCHANGED truncated
    /\ UNCHANGED <<prefix, del0, outer, visited, other, arg, res>>

\* _walk_delete: any other entry, remove([full])
DelRemove(ok) ==
    /\ pc = "del_walk" /\ Top.phase = "loop" /\ Top.entries # << >>
    /\ ~IsFolderEntry(Head(Top.entries))
    /\ Outcome(ok)
    /\ LET full == DelFull(Top) IN
       /\ calls' = Append(calls, Call("remove", req.src_bucket, full, ok))
       /\ IF ok
          THEN /\ store' = Del(store, req.src_bucket, full)
               /\ deleted' = deleted + 1
               /\ errors' = errors
          ELSE /\ store' = store
               /\ deleted' = deleted
               /\ errors' = Append(errors, [key |-> full])
    /\ stack' = SetTop([Top EXCEPT !.entries = Tail(Top.entries)])
    /\ UNCHANGED <<store0, pc, req, copied, cerrors, delRet, copyRet, dst_full, buf,
                   flashes, exc>>
    /\ UNCHANGED truncated
    /\ UNCHANGED <<prefix, del0, outer, visited, other, arg, res>>

\* what the caller does once delete_prefix_recursive has returned
AfterDelete ==
    IF req.kind = "transfer"
    THEN IF errors # << >>
         THEN Flash("error", "Move completed, but cleanup had errors")
         ELSE Flash("success", "Moved folder")
    ELSE IF errors # << >>
         THEN Flash("error", "Deleted with errors")
         ELSE Flash("success", "Deleted objects")

\* a failed placeholder remove reported like any other
PlaceholderErrors_Reported(ok, keep) ==
    IF ok THEN errors ELSE Append(errors, [key |-> keep])

\* lines 149-150: except Exception: pass
PlaceholderErrors(ok, keep) == errors

\* _walk_delete: after the loop, remove the placeholder, swallowing a failure
DelKeep(ok) ==
    /\ pc = "del_walk" /\ Top.phase = "loop" /\ Top.entries = << >>
    /\ Outcome(ok)
    /\ LET keep == join_path(<<Top.src, DotKeep>>) IN
       /\ calls' = Append(calls, Call("remove", req.src_bucket, keep, ok))
       /\ store' = IF ok THEN Del(store, req.src_bucket, keep) ELSE store
       /\ errors' = PlaceholderErrors(ok, keep)
    /\ stack' = Pop
    /\ IF Len(stack) = 1
       THEN /\ delRet' = TRUE
            /\ IF req.kind = "delete_bucket"
               THEN pc' = "empty_loop" /\ flashes' = flashes
               ELSE pc' = "done" /\ flashes' = Append(flashes, AfterDelete)
       ELSE UNCHANGED <<delRet, pc, flashes>>
    /\ UNCHANGED <<store0, req, deleted, copied, cerrors, copyRet, dst_full,
                   buf, exc>>
    /\ UNCHANGED truncated
    /\ UNCHANGED <<prefix, del0, outer, visited, other, arg, res>>

\* --------------------------------------------------------- transfer (route)
\* a folder sent to dst_path itself rather than below it
ResolveDst_FolderVerbatim(is_folder, dst_path, name) ==
    IF dst_path # Empty THEN dst_path ELSE name

\* lines 706-720: the destination the form resolves to
ResolveDst(is_folder, dst_path, name) ==
    IF dst_path # Empty
    THEN IF is_folder
         THEN join_path(<<dst_path, name>>)
         ELSE IF EndsWith(dst_path, <<SL>>)
              THEN join_path(<<dst_path, name>>)
              ELSE dst_path
    ELSE name

\* lines 737-738: single file, a destination that is still a directory
FileDst(dst, name) ==
    IF dst = Empty \/ EndsWith(dst, <<SL>>) THEN join_path(<<dst, name>>) ELSE dst

\* the validation with a guard against a folder sent into itself
ValidTransfer_NoOverlap(f) ==
    LET src == Strip(f.raw_src)
        dst == Strip(ResolveDst(TRUE, Strip(f.raw_dst), basename(RStrip(src))))
    IN /\ f.op \in {"copy", "move"}
       /\ f.src_bucket # ""
       /\ f.dst_bucket # ""
       /\ src # Empty
       /\ ~(f.is_folder /\ f.src_bucket = f.dst_bucket
                        /\ (dst = src \/ StartsWith(dst, src \o <<SL>>)))

\* the validation without its src_path test
ValidTransfer_NoSrcPath(f) ==
    /\ f.op \in {"copy", "move"}
    /\ f.src_bucket # ""
    /\ f.dst_bucket # ""

\* line 702
ValidTransfer(f) ==
    /\ f.op \in {"copy", "move"}
    /\ f.src_bucket # ""
    /\ f.dst_bucket # ""
    /\ Strip(f.raw_src) # Empty

SrcPaths == { kB, kBB, kBA, kA }
DstPaths == { Empty, kB, kC \o <<SL>> }

TransferForms ==
    { [NoReq EXCEPT !.kind = "transfer", !.op = o, !.is_folder = d, !.src_bucket = "b1",
                    !.dst_bucket = db, !.raw_src = rs, !.raw_dst = rd] :
        o \in {"copy", "move"}, d \in BOOLEAN, db \in Buckets,
        rs \in SrcPaths, rd \in DstPaths }
    \cup
    { [NoReq EXCEPT !.kind = "transfer", !.op = o, !.src_bucket = sb, !.dst_bucket = db,
                    !.raw_src = rs] :
        o \in {"copy", "rename"}, sb \in {"b1", ""}, db \in {"b2", ""},
        rs \in {kBA, <<SL>>} }

StartTransfer(f) ==
    LET src_path == Strip(f.raw_src)
        dst_path == Strip(f.raw_dst)
        name == basename(RStrip(src_path))
        dst == ResolveDst(f.is_folder, dst_path, name)
    IN
    /\ pc = "idle"
    /\ req' = [f EXCEPT !.src_path = src_path, !.dst_path = dst_path]
    /\ IF ~ValidTransfer(f)
       THEN /\ flashes' = Append(flashes, Flash("error", "Invalid transfer request."))
            /\ pc' = "done"
            /\ UNCHANGED <<stack, dst_full>>
       ELSE /\ flashes' = flashes
            /\ IF f.is_folder
               THEN /\ dst_full' = dst
                    /\ pc' = "copy_walk"
                    /\ stack' = <<Frame(Strip(src_path), Strip(dst), "keep")>>
               ELSE /\ dst_full' = FileDst(dst, name)
                    /\ pc' = "file_download"
                    /\ stack' = stack
    /\ UNCHANGED <<store, store0, deleted, errors, copied, cerrors, delRet, copyRet,
                   buf, fails, calls, exc>>
    /\ UNCHANGED truncated
    /\ UNCHANGED <<prefix, del0, outer, visited, other, arg, res>>

\* --------------------------------------------------- copy_folder_recursive
\* _walk_copy: ensure_placeholder_for_folder(dst_bucket, pfx_dst), best effort
\* a failed placeholder upload reported like a failed copy
KeepErrors_Reported(ok, placeholder_key) ==
    IF ok THEN cerrors ELSE Append(cerrors, [src |-> placeholder_key, dst |-> placeholder_key])

\* lines 119-123 and 169-172: ensure_placeholder_for_folder returns its
\* failure, and _walk_copy drops what it returns
KeepErrors(ok, placeholder_key) == cerrors

CopyKeep(ok) ==
    /\ pc = "copy_walk" /\ Top.phase = "keep"
    /\ Outcome(ok)
    /\ LET placeholder_key == join_path(<<Top.dst, DotKeep>>) IN
       /\ calls' = Append(calls, Call("upload", req.dst_bucket, placeholder_key, ok))
       /\ store' = IF ok THEN Put(store, req.dst_bucket, placeholder_key, << >>) ELSE store
       /\ cerrors' = KeepErrors(ok, placeholder_key)
    /\ stack' = SetTop([Top EXCEPT !.phase = "list"])
    /\ UNCHANGED <<store0, pc, req, deleted, errors, copied, delRet, copyRet,
                   dst_full, buf, flashes, exc>>
    /\ UNCHANGED truncated
    /\ UNCHANGED <<prefix, del0, outer, visited, other, arg, res>>

\* _walk_copy: resp = list(pfx_src)
CopyList(ok) ==
    /\ pc = "copy_walk" /\ Top.phase = "list"
    /\ Outcome(ok)
    /\ calls' = Append(calls, Call("list", req.src_bucket, Top.src, ok))
    /\ IF ok
       THEN /\ stack' = SetTop([Top EXCEPT !.phase = "loop",
                                           !.entries = List(store, req.src_bucket, Top.src)])
            /\ UNCHANGED <<pc, flashes, exc>>
       ELSE Raise
    /\ UNCHANGED <<store, store0, req, deleted, errors, copied, cerrors, delRet,
                   copyRet, dst_full, buf>>
    /\ truncated' = (truncated \/ (ok /\ Truncated(store, req.src_bucket, Top.src)))
    /\ UNCHANGED <<prefix, del0, outer, other, arg, res>>
    /\ visited' = IF ok
                  THEN [visited EXCEPT !.c = @ \o FullPairs(Top.src, Top.dst,
                            FileEntries(List(store, req.src_bucket, Top.src)))]
                  ELSE visited

SrcFull(f) == join_path(<<f.src, Head(f.entries).name>>)
DstFullOf(f) == join_path(<<f.dst, RStrip(Head(f.entries).name)>>)

\* the failure recorded without its destination
CopyError_SrcOnly(f) == [src |-> SrcFull(f), dst |-> Empty]

\* line 188: errors.append(f"{src_full} -> {dst_full}: {ex}")
CopyError(f) == [src |-> SrcFull(f), dst |-> DstFullOf(f)]

\* _walk_copy: a folder entry, recurse
CopyRecurse ==
    /\ pc = "copy_walk" /\ Top.phase = "loop" /\ Top.entries # << >>
    /\ IsFolderEntry(Head(Top.entries))
    /\ IF Len(stack) < MaxDepth
       THEN /\ stack' = Append(SetTop([Top EXCEPT !.entries = Tail(Top.entries)]),
                               Frame(SrcFull(Top), DstFullOf(Top), "keep"))
            /\ UNCHANGED <<pc, flashes, exc>>
       ELSE Raise
    /\ UNCHANGED <<store, store0, req, deleted, errors, copied, cerrors, delRet,
                   copyRet, dst_full, buf, fails, calls>>
    /\ UNCHANGED truncated
    /\ UNCHANGED <<prefix, del0, outer, visited, other, arg, res>>

\* download(key): NotFound when the key is absent
DownloadOutcome(b, k, ok) ==
    IF Has(store, b, k) THEN Outcome(ok) ELSE ~ok /\ fails' = fails

\* copy_file, first half: data = download(src_key)
CopyDownload(ok) ==
    /\ pc = "copy_walk" /\ Top.phase = "loop" /\ Top.entries # << >>
    /\ ~IsFolderEntry(Head(Top.entries))
    /\ DownloadOutcome(req.src_bucket, SrcFull(Top), ok)
    /\ calls' = Append(calls, Call("download", req.src_bucket, SrcFull(Top), ok))
    /\ IF ok
       THEN /\ buf' = store[req.src_bucket][SrcFull(Top)]
            /\ stack' = SetTop([Top EXCEPT !.phase = "upload"])
            /\ cerrors' = cerrors
       ELSE /\ buf' = buf
            /\ stack' = SetTop([Top EXCEPT !.entries = Tail(Top.entries)])
            /\ cerrors' = Append(cerrors, CopyError(Top))
    /\ UNCHANGED <<store, store0, pc, req, deleted, errors, copied, delRet, copyRet,
                   dst_full, flashes, exc>>
    /\ UNCHANGED truncated
    /\ UNCHANGED <<prefix, del0, outer, visited, other, arg, res>>

\* copy_file, second half: upload(dst_key, data)
CopyUpload(ok) ==
    /\ pc = "copy_walk" /\ Top.phase = "upload"
    /\ Outcome(ok)
    /\ calls' = Append(calls, Call("upload", req.dst_bucket, DstFullOf(Top), ok))
    /\ IF ok
       THEN /\ store' = Put(store, req.dst_bucket, DstFullOf(Top), buf)
            /\ copied' = copied + 1
            /\ cerrors' = cerrors
       ELSE /\ store' = store
            /\ copied' = copied
            /\ cerrors' = Append(cerrors, CopyError(Top))
    /\ buf' = << >>
    /\ stack' = SetTop([Top EXCEPT !.phase = "loop", !.entries = Tail(Top.entries)])
    /\ UNCHANGED <<store0, pc, req, deleted, errors, delRet, copyRet, dst_full,
                   flashes, exc>>
    /\ UNCHANGED truncated
    /\ UNCHANGED <<prefix, del0, outer, visited, other, arg, res>>

\* what transfer flashes once copy_folder_recursive has returned
AfterCopy ==
    IF cerrors # << >>
    THEN Flash("error", "Copied objects with some errors")
    ELSE Flash("success", "Copied folder")

\* cleanup skipped when the copy had errors
CleanupAfterCopy_OnlyIfClean == req.op = "move" /\ cerrors = << >>

\* line 729: a move deletes the source once the copy has returned
CleanupAfterCopy == req.op = "move"

\* any return of _walk_copy taken for the end of the copy
OutermostReturn_Any == TRUE

\* line 190: the activation that returns is the one copy_folder_recursive started
OutermostReturn == Len(stack) = 1

\* _walk_copy returns; from the outermost frame transfer goes on (lines 725-730)
CopyReturn ==
    /\ pc = "copy_walk" /\ Top.phase = "loop" /\ Top.entries = << >>
    /\ IF OutermostReturn
       THEN /\ copyRet' = TRUE
            /\ flashes' = Append(flashes, AfterCopy)
            /\ IF CleanupAfterCopy
               THEN /\ pc' = "del_walk"
                    /\ stack' = <<Frame(Strip(req.src_path), Empty, "list")>>
               ELSE /\ pc' = "done"
                    /\ stack' = << >>
       ELSE /\ stack' = Pop
            /\ UNCHANGED <<copyRet, flashes, pc>>
    /\ UNCHANGED <<store, store0, req, deleted, errors, copied, cerrors, delRet,
                   dst_full, buf, fails, calls, exc>>
    /\ UNCHANGED truncated
    /\ prefix' = (IF OutermostReturn /\ CleanupAfterCopy THEN req.src_path ELSE prefix)
    /\ del0' = (IF OutermostReturn /\ CleanupAfterCopy THEN store ELSE del0)
    /\ UNCHANGED <<outer, visited, other, arg, res>>

\* ------------------------------------------------- transfer of a single file
TransferFailed ==
    /\ flashes' = Append(flashes, Flash("error", "Transfer failed"))
    /\ pc' = "done"

\* copy_file, first half
FileDownload(ok) ==
    /\ pc = "file_download"
    /\ DownloadOutcome(req.src_bucket, req.src_path, ok)
    /\ calls' = Append(calls, Call("download", req.src_bucket, req.src_path, ok))
    /\ IF ok
       THEN /\ buf' = store[req.src_bucket][req.src_path]
            /\ pc' = "file_upload"
            /\ flashes' = flashes
       ELSE /\ buf' = buf
            /\ TransferFailed
    /\ UNCHANGED <<store, store0, req, stack, deleted, errors, copied, cerrors, delRet,
                   copyRet, dst_full, exc>>
    /\ UNCHANGED truncated
    /\ UNCHANGED <<prefix, del0, outer, visited, other, arg, res>>

\* a failed upload that does not stop the move
FileUpload_RemovesAnyway(ok) ==
    /\ pc = "file_upload"
    /\ Outcome(ok)
    /\ calls' = Append(calls, Call("upload", req.dst_bucket, dst_full, ok))
    /\ IF ok
       THEN /\ store' = Put(store, req.dst_bucket, dst_full, buf)
            /\ IF req.op = "move"
               THEN pc' = "file_remove" /\ flashes' = flashes
               ELSE /\ pc' = "done"
                    /\ flashes' = Append(flashes, Flash("success", "Copyed file"))
       ELSE /\ store' = store
            /\ IF req.op = "move"
               THEN pc' = "file_remove" /\ flashes' = flashes
               ELSE TransferFailed
    /\ buf' = << >>
    /\ UNCHANGED <<store0, req, stack, deleted, errors, copied, cerrors, delRet,
                   copyRet, dst_full, exc>>
    /\ UNCHANGED truncated
    /\ UNCHANGED <<prefix, del0, outer, visited, other, arg, res>>

\* copy_file, second half, then line 740
FileUpload(ok) ==
    /\ pc = "file_upload"
    /\ Outcome(ok)
    /\ calls' = Append(calls, Call("upload", req.dst_bucket, dst_full, ok))
    /\ IF ok
       THEN /\ store' = Put(store, req.dst_bucket, dst_full, buf)
            /\ IF req.op = "move"
               THEN pc' = "file_remove" /\ flashes' = flashes
               ELSE /\ pc' = "done"
                    /\ flashes' = Append(flashes, Flash("success", "Copyed file"))
       ELSE /\ store' = store
            /\ TransferFailed
    /\ buf' = << >>
    /\ UNCHANGED <<store0, req, stack, deleted, errors, copied, cerrors, delRet,
                   copyRet, dst_full, exc>>
    /\ UNCHANGED truncated
    /\ UNCHANGED <<prefix, del0, outer, visited, other, arg, res>>

\* the failed remove reported by the outer handler
CleanupFailedFlash_Generic == Flash("error", "Transfer failed")

\* line 744: the message of the inner handler
CleanupFailedFlash == Flash("error", "Copied, but failed to delete source")

\* lines 741-746: remove([src_path]) after the copy
FileRemove(ok) ==
    /\ pc = "file_remove"
    /\ Outcome(ok)
    /\ calls' = Append(calls, Call("remove", req.src_bucket, req.src_path, ok))
    /\ IF ok
       THEN /\ store' = Del(store, req.src_bucket, req.src_path)
            /\ flashes' = Append(flashes, Flash("success", "Moveed file"))
       ELSE /\ store' = store
            /\ flashes' = Append(flashes, CleanupFailedFlash)
    /\ pc' = "done"
    /\ UNCHANGED <<store0, req, stack, deleted, errors, copied, cerrors, delRet,
                   copyRet, dst_full, buf, exc>>
    /\ UNCHANGED truncated
    /\ UNCHANGED <<prefix, del0, outer, visited, other, arg, res>>

\* ---------------------------------------------------------- mkdir (route)
kAKeep == <<"a", ".", "k", "e", "e", "p">>
FolderNames == { kC, <<" ">> \o kC, kAKeep, Empty, <<".", ".">>, kB \o <<SL>> \o kC,
                 <<"*">> \o kC }
ParentPaths == { Empty, kB, kC }

Untouched == <<store, store0, stack, deleted, errors, copied, cerrors, delRet, copyRet,
           dst_full, buf, fails, calls, exc, truncated, prefix, del0, outer, visited, other, arg, res>>

StartMkdir(bucket, raw_path, raw_name) ==
    LET current_path == Strip(raw_path)
        name == WsStrip(raw_name)
        err == validate_segment(name)
    IN
    /\ pc = "idle"
    /\ req' = [NoReq EXCEPT !.kind = "mkdir", !.src_bucket = bucket,
                            !.src_path = current_path, !.raw_src = raw_path,
                            !.name = name, !.raw_name = raw_name]
    /\ IF err # None
       THEN /\ flashes' = Append(flashes, Flash("error", err))
            /\ pc' = "done"
       ELSE /\ flashes' = flashes
            /\ pc' = "mkdir_upload"
    /\ UNCHANGED Untouched

\* ensure_placeholder_for_folder(bucket, join_path(current_path, name))
MkdirUpload(ok) ==
    /\ pc = "mkdir_upload"
    /\ Outcome(ok)
    /\ LET full == join_path(<<req.src_path, req.name>>)
           placeholder_key == join_path(<<full, DotKeep>>)
       IN /\ calls' = Append(calls, Call("upload", req.src_bucket, placeholder_key, ok))
          /\ store' = IF ok THEN Put(store, req.src_bucket, placeholder_key, << >>)
                      ELSE store
    /\ flashes' = Append(flashes, IF ok THEN Flash("success", "Folder created")
                                  ELSE Flash("error", "Failed to create folder placeholder"))
    /\ pc' = "done"
    /\ UNCHANGED <<store0, req, stack, deleted, errors, copied, cerrors, delRet, copyRet,
                   dst_full, buf, exc, truncated, prefix, del0, outer, visited, other, arg, res>>

\* --------------------------------------------------------- upload (route)
FileNames == { Empty, kC, <<"*">> \o kC, kB \o <<SL>> \o kC }
UploadData == <<7>>

StartUpload(bucket, raw_path, raw_name) ==
    LET current_path == Strip(raw_path)
        filename == basename(raw_name)
        seg_err == validate_segment(filename)
    IN
    /\ pc = "idle"
    /\ req' = [NoReq EXCEPT !.kind = "upload", !.src_bucket = bucket,
                            !.src_path = current_path, !.raw_src = raw_path,
                            !.name = filename, !.raw_name = raw_name]
    /\ IF raw_name = Empty
       THEN /\ flashes' = Append(flashes, Flash("error", "Please choose a file to upload."))
            /\ pc' = "done"
       ELSE IF seg_err # None
       THEN /\ flashes' = Append(flashes, Flash("error", seg_err))
            /\ pc' = "done"
       ELSE /\ flashes' = flashes
            /\ pc' = "upload_put"
    /\ UNCHANGED Untouched

\* upload(join_path(current_path, filename), file.read())
UploadPut(ok) ==
    /\ pc = "upload_put"
    /\ Outcome(ok)
    /\ LET key == join_path(<<req.src_path, req.name>>) IN
       /\ calls' = Append(calls, Call("upload", req.src_bucket, key, ok))
       /\ store' = IF ok THEN Put(store, req.src_bucket, key, UploadData) ELSE store
    /\ flashes' = Append(flashes, IF ok THEN Flash("success", "Uploaded")
                                  ELSE Flash("error", "Upload failed"))
    /\ pc' = "done"
    /\ UNCHANGED <<store0, req, stack, deleted, errors, copied, cerrors, delRet, copyRet,
                   dst_full, buf, exc, truncated, prefix, del0, outer, visited, other, arg, res>>

\* -------------------------------------------------- create_bucket (route)
BucketNames == { kC, kB \o <<"1">>, Empty, <<".", ".">>, <<"*">> \o kC }

\* the bucket a submitted name denotes
BucketId(name) ==
    CASE name = kC -> "c"
      [] name = kB \o <<"1">> -> "b1"
      [] OTHER -> "other"

StartCreateBucket(raw_name) ==
    LET name == WsStrip(raw_name)
        err == validate_segment(name)
    IN
    /\ pc = "idle"
    /\ req' = [NoReq EXCEPT !.kind = "create_bucket", !.name = name, !.raw_name = raw_name]
    /\ IF err # None
       THEN /\ flashes' = Append(flashes, Flash("error", err))
            /\ pc' = "done"
       ELSE /\ flashes' = flashes
            /\ pc' = "create_call"
    /\ UNCHANGED Untouched

\* sb.storage.create_bucket(name); an SDK with the older signature raises
\* TypeError first and is called again with options; an existing bucket is refused
CreateBucketCall(ok, legacy) ==
    /\ pc = "create_call"
    /\ IF BucketId(req.name) \in DOMAIN store THEN ~ok /\ fails' = fails ELSE Outcome(ok)
    /\ calls' = calls
                \o (IF legacy THEN <<Call("create_bucket", BucketId(req.name), Empty, FALSE)>>
                    ELSE << >>)
                \o <<Call("create_bucket", BucketId(req.name), Empty, ok)>>
    /\ store' = IF ok
                THEN [b \in (DOMAIN store) \cup {BucketId(req.name)} |->
                        IF b \in DOMAIN store THEN store[b] ELSE << >>]
                ELSE store
    /\ flashes' = Append(flashes, IF ok THEN Flash("success", "Bucket created")
                                  ELSE Flash("error", "Failed to create bucket"))
    /\ pc' = "done"
    /\ UNCHANGED <<store0, req, stack, deleted, errors, copied, cerrors, delRet, copyRet,
                   dst_full, buf, exc, truncated, prefix, del0, outer, visited, other, arg, res>>

\* -------------------------------------------------- delete_bucket (route)
StartDeleteBucket(bucket) ==
    /\ pc = "idle"
    /\ req' = [NoReq EXCEPT !.kind = "delete_bucket", !.src_bucket = bucket]
    /\ pc' = "empty_bucket"
    /\ flashes' = flashes
    /\ UNCHANGED Untouched

\* empty_bucket: the SDK has empty_bucket and it is called; its failure is
\* swallowed and the fallback runs
EmptySdk(ok) ==
    /\ pc = "empty_bucket"
    /\ Outcome(ok)
    /\ calls' = Append(calls, Call("empty_bucket", req.src_bucket, Empty, ok))
    /\ store' = IF ok THEN [store EXCEPT ![req.src_bucket] = << >>] ELSE store
    /\ pc' = IF ok THEN "bucket_delete" ELSE "empty_list"
    /\ UNCHANGED <<store0, req, stack, deleted, errors, copied, cerrors, delRet, copyRet,
                   dst_full, buf, flashes, exc, truncated, prefix, del0, outer, visited, other, arg, res>>

\* empty_bucket: the SDK has no empty_bucket
EmptyNoSdk ==
    /\ pc = "empty_bucket"
    /\ pc' = "empty_list"
    /\ UNCHANGED <<req, flashes>>
    /\ UNCHANGED Untouched

\* empty_bucket, fallback: items = list(""); a failure is swallowed
EmptyList(ok) ==
    /\ pc = "empty_list"
    /\ Outcome(ok)
    /\ calls' = Append(calls, Call("list", req.src_bucket, Empty, ok))
    /\ outer' = IF ok THEN List(store, req.src_bucket, Empty) ELSE << >>
    /\ pc' = IF ok THEN "empty_loop" ELSE "bucket_delete"
    /\ truncated' = (truncated \/ (ok /\ Truncated(store, req.src_bucket, Empty)))
    /\ UNCHANGED <<store, store0, req, stack, deleted, errors, copied, cerrors, delRet,
                   copyRet, dst_full, buf, flashes, exc, prefix, del0, visited, other, arg, res>>

\* empty_bucket, fallback: a top-level folder entry, delete_prefix_recursive
EmptyFolder ==
    /\ pc = "empty_loop" /\ outer # << >>
    /\ IsFolderEntry(Head(outer))
    /\ outer' = Tail(outer)
    /\ pc' = "del_walk"
    /\ stack' = <<Frame(Strip(Head(outer).name), Empty, "list")>>
    /\ deleted' = 0
    /\ errors' = << >>
    /\ delRet' = FALSE
    /\ prefix' = Head(outer).name
    /\ del0' = store
    /\ UNCHANGED <<store, store0, req, copied, cerrors, copyRet, dst_full, buf, fails,
                   calls, flashes, exc, truncated, other, arg, res>>
    /\ visited' = [visited EXCEPT !.d = << >>]

\* empty_bucket, fallback: any other top-level entry, remove([name]); a
\* failure is swallowed
EmptyRemove(ok) ==
    /\ pc = "empty_loop" /\ outer # << >>
    /\ ~IsFolderEntry(Head(outer))
    /\ Outcome(ok)
    /\ calls' = Append(calls, Call("remove", req.src_bucket, Head(outer).name, ok))
    /\ store' = IF ok THEN Del(store, req.src_bucket, Head(outer).name) ELSE store
    /\ outer' = Tail(outer)
    /\ UNCHANGED <<store0, pc, req, stack, deleted, errors, copied, cerrors, delRet,
                   copyRet, dst_full, buf, flashes, exc, truncated, prefix, del0, visited, other, arg, res>>

\* the methods of the SDK that delete a bucket
BucketDeleters == { "delete_bucket", "remove_bucket", "none" }

\* delete_bucket: empty_bucket has returned; sb.storage.delete_bucket(bucket),
\* else remove_bucket, else RuntimeError. The backend refuses a bucket that
\* still holds objects.
BucketDelete(ok, sdk) ==
    /\ pc = "bucket_delete" \/ (pc = "empty_loop" /\ outer = << >>)
    /\ IF sdk = "none" \/ DOMAIN store[req.src_bucket] # {}
       THEN ~ok /\ fails' = fails
       ELSE Outcome(ok)
    /\ calls' = IF sdk = "none" THEN calls
                ELSE Append(calls, Call(sdk, req.src_bucket, Empty, ok))
    /\ store' = IF ok THEN [b \in (DOMAIN store) \ {req.src_bucket} |-> store[b]]
                ELSE store
    /\ flashes' = Append(flashes, IF ok THEN Flash("success", "Bucket deleted")
                                  ELSE Flash("error", "Failed to delete bucket"))
    /\ pc' = "done"
    /\ UNCHANGED <<store0, req, stack, deleted, errors, copied, cerrors, delRet, copyRet,
                   dst_full, buf, exc, truncated, prefix, del0, outer, visited, other, arg, res>>

\* --------------------------------------------------------- browse (route)
\* the panel is fetched again once a folder or a file has been added; a failed
\* listing is flashed and shown as an empty folder
Browse(bucket, raw_path, ok) ==
    LET path == Strip(raw_path) IN
    /\ pc = "done" /\ req.kind \in {"mkdir", "upload"} /\ res = NoArg
    /\ bucket \in DOMAIN store
    /\ Outcome(ok)
    /\ res' = [fn |-> "browse", bucket |-> bucket, path |-> path, ok |-> ok,
               listing |-> IF ok THEN list_items(store, bucket, path)
                           ELSE [folders |-> << >>, files |-> << >>]]
    /\ UNCHANGED <<store, store0, pc, req, stack, deleted, errors, copied, cerrors,
                   delRet, copyRet, dst_full, buf, calls, flashes, exc, truncated,
                   prefix, del0, outer, visited, other, arg>>

Next ==
    \/ \E b \in Buckets, raw \in DeletePaths : StartDeletePrefix(b, raw)
    \/ \E ok \in BOOLEAN : DelList(ok)
    \/ DelRecurse
    \/ \E ok \in BOOLEAN : DelRemove(ok)
    \/ \E ok \in BOOLEAN : DelKeep(ok)
    \/ \E f \in TransferForms : StartTransfer(f)
    \/ \E ok \in BOOLEAN : CopyKeep(ok)
    \/ \E ok \in BOOLEAN : CopyList(ok)
    \/ CopyRecurse
    \/ \E ok \in BOOLEAN : CopyDownload(ok)
    \/ \E ok \in BOOLEAN : CopyUpload(ok)
    \/ CopyReturn
    \/ \E ok \in BOOLEAN : FileDownload(ok)
    \/ \E ok \in BOOLEAN : FileUpload(ok)
    \/ \E ok \in BOOLEAN : FileRemove(ok)
    \/ \E b \in Buckets, rp \in ParentPaths, rn \in FolderNames : StartMkdir(b, rp, rn)
    \/ \E ok \in BOOLEAN : MkdirUpload(ok)
    \/ \E b \in Buckets, rp \in ParentPaths, rn \in FileNames : StartUpload(b, rp, rn)
    \/ \E ok \in BOOLEAN : UploadPut(ok)
    \/ \E rn \in BucketNames : StartCreateBucket(rn)
    \/ \E ok \in BOOLEAN, legacy \in BOOLEAN : CreateBucketCall(ok, legacy)
    \/ \E b \in Buckets : StartDeleteBucket(b)
    \/ \E ok \in BOOLEAN : EmptySdk(ok)
    \/ EmptyNoSdk
    \/ \E ok \in BOOLEAN : EmptyList(ok)
    \/ EmptyFolder
    \/ \E ok \in BOOLEAN : EmptyRemove(ok)
    \/ \E ok \in BOOLEAN, sdk \in BucketDeleters : BucketDelete(ok, sdk)
    \/ \E b \in Buckets, rp \in ParentPaths, ok \in BOOLEAN : Browse(b, rp, ok)

Spec == Init /\ [][Next]_vars

\* ------------------------------------------------ the helpers on their own
MaxLen == 4
MaxEntries == 2

RECURSIVE StringsOver(_, _)
StringsOver(chars, n) ==
    IF n = 0 THEN { Empty }
    ELSE LET shorter == StringsOver(chars, n - 1)
         IN shorter \cup { Append(t, c) : t \in shorter, c \in chars }

SegChars == { "a", "1", ".", "-", " ", "\t", "/", "*" }
PathChars == { "a", "b", "/" }
SecondParts == { Empty, <<SL>>, kA, <<SL>> \o kA \o <<SL>>, kA \o <<SL, SL>> \o kB }

EntryNames == { Empty, kA, kA \o <<SL>>, DotKeep, kAKeep }
Entries == { [name |-> n, hasSize |-> h[1], size |-> h[2], hasId |-> i] :
               n \in EntryNames, h \in { <<FALSE, 0>>, <<TRUE, 0>>, <<TRUE, 1>> },
               i \in BOOLEAN }

RECURSIVE Responses(_)
Responses(n) ==
    IF n = 0 THEN { << >> }
    ELSE LET shorter == Responses(n - 1)
         IN shorter \cup { Append(r, e) : r \in shorter, e \in Entries }

PureInputs ==
    { [fn |-> "validate_segment", seg |-> t] : t \in StringsOver(SegChars, MaxLen) }
    \cup { [fn |-> "path", p |-> t, q |-> u] :
               t \in StringsOver(PathChars, MaxLen), u \in SecondParts }
    \cup { [fn |-> "list_items", entries |-> r] : r \in Responses(MaxEntries) }

InitPure ==
    /\ store = [b \in Buckets |-> << >>]
    /\ pc = "pure"
    /\ arg \in PureInputs
    /\ other = NoOther
    /\ InitRest

Rest == <<store, store0, req, stack, deleted, errors, copied, cerrors, delRet, copyRet,
          dst_full, buf, fails, calls, flashes, exc, truncated, prefix, del0, outer, visited, other, arg>>

ApplyValidateSegment ==
    /\ pc = "pure" /\ arg.fn = "validate_segment"
    /\ res' = [fn |-> arg.fn, err |-> validate_segment(arg.seg)]
    /\ pc' = "applied"
    /\ UNCHANGED Rest

ApplyPath ==
    /\ pc = "pure" /\ arg.fn = "path"
    /\ LET parts == split_path(arg.p)
           joined == join_path(parts)
       IN res' = [fn |-> arg.fn, parts |-> parts, joined |-> joined,
                  again |-> split_path(joined), both |-> join_path(<<arg.p, arg.q>>)]
    /\ pc' = "applied"
    /\ UNCHANGED Rest

\* list_items on a response of the backend
ApplyListItems ==
    /\ pc = "pure" /\ arg.fn = "list_items"
    /\ res' = [fn |-> arg.fn, listing |-> Classify(arg.entries)]
    /\ pc' = "applied"
    /\ UNCHANGED Rest

NextPure ==
    \/ ApplyValidateSegment
    \/ ApplyPath
    \/ ApplyListItems

SpecPure == InitPure /\ [][NextPure]_vars

\* ------------------------------------- two requests on one worker process
\* a folder delete and a folder copy of the same source, served side by side;
\* a request may be set aside between any two of its store calls
RaceStores ==
    { [b \in Buckets |-> [k \in (IF b = "b1" THEN S1 ELSE {}) |-> Content0[b][k]]] :
        S1 \in { {kBA, kBBA} } }

RaceForm == [NoReq EXCEPT !.kind = "transfer", !.op = "copy", !.is_folder = TRUE,
                          !.src_bucket = "b1", !.dst_bucket = "b2",
                          !.raw_src = kB, !.raw_dst = Empty]

Idle == [pc |-> "idle", stack |-> << >>, req |-> NoReq]

InitRace ==
    /\ store \in RaceStores
    /\ pc = "idle"
    /\ arg = NoArg
    /\ other = Idle
    /\ InitRest

\* the waiting request held back until the running one has ended
Yield_Locked ==
    /\ pc = "done"
    /\ other.pc \notin {"none", "done"}
    /\ pc' = other.pc
    /\ stack' = other.stack
    /\ req' = other.req
    /\ other' = [pc |-> pc, stack |-> stack, req |-> req]
    /\ UNCHANGED <<store, store0, deleted, errors, copied, cerrors, delRet, copyRet,
                   dst_full, buf, fails, calls, flashes, exc, truncated, prefix, del0,
                   outer, visited, arg, res>>

\* the running request has not started, has ended, or its next step is a
\* store call
AtStoreCall ==
    \/ pc \in {"idle", "done"}
    \/ /\ pc \in {"copy_walk", "del_walk"}
       /\ \/ Top.phase \in {"keep", "list", "upload"}
          \/ Top.phase = "loop" /\ Top.entries # << >> /\ ~IsFolderEntry(Head(Top.entries))
          \/ Top.phase = "loop" /\ Top.entries = << >> /\ pc = "del_walk"

\* the running request is set aside before a store call and the waiting one
\* goes on
Yield ==
    /\ AtStoreCall
    /\ other.pc \notin {"none", "done"}
    /\ pc' = other.pc
    /\ stack' = other.stack
    /\ req' = other.req
    /\ other' = [pc |-> pc, stack |-> stack, req |-> req]
    /\ UNCHANGED <<store, store0, deleted, errors, copied, cerrors, delRet, copyRet,
                   dst_full, buf, fails, calls, flashes, exc, truncated, prefix, del0,
                   outer, visited, arg, res>>

RaceCopy == other.req.kind # "transfer" /\ StartTransfer(RaceForm)
RaceDelete == other.req.kind # "delete_prefix" /\ StartDeletePrefix("b1", kB)

NextRace ==
    \/ RaceCopy
    \/ RaceDelete
    \/ Yield
    \/ \E ok \in BOOLEAN : CopyKeep(ok)
    \/ \E ok \in BOOLEAN : CopyList(ok)
    \/ CopyRecurse
    \/ \E ok \in BOOLEAN : CopyDownload(ok)
    \/ \E ok \in BOOLEAN : CopyUpload(ok)
    \/ CopyReturn
    \/ \E ok \in BOOLEAN : DelList(ok)
    \/ DelRecurse
    \/ \E ok \in BOOLEAN : DelRemove(ok)
    \/ \E ok \in BOOLEAN : DelKeep(ok)

SpecRace == InitRace /\ [][NextRace]_vars


\* ------------------------------------------------------------- properties
SrcRoot == Strip(req.src_path)
DstRoot == Strip(dst_full)

FolderTransfer == req.kind = "transfer" /\ ValidTransfer(req) /\ req.is_folder
FileTransfer == req.kind = "transfer" /\ ValidTransfer(req) /\ ~req.is_folder

\* the state in which copy_folder_recursive has just returned
AtCopyReturn ==
    /\ copyRet
    /\ \/ pc = "done" /\ req.op = "copy"
       \/ pc = "del_walk" /\ calls[Len(calls)].op # "remove"
                          /\ Len(stack) = 1 /\ stack[1].phase = "list"

\* every object below the source root of st has its copy below the destination root
CopyImageOf(st) ==
    \A k \in Under(st, req.src_bucket, SrcRoot) :
        LET d == join_path(<<DstRoot, RelKey(k, SrcRoot)>>) IN
        /\ Has(store, req.dst_bucket, d)
        /\ store[req.dst_bucket][d] = st[req.src_bucket][k]

\* C1: when delete_prefix_recursive returns with no errors, no key below the
\* prefix remains, listing the prefix returns nothing and the parent's listing
\* has no entry named after the prefix
C1_DeleteLeavesNothing ==
    (delRet /\ errors = << >>) =>
        /\ Under(store, req.src_bucket, SrcRoot) = {}
        /\ List(store, req.src_bucket, SrcRoot) = << >>
        /\ LET segs == split_path(SrcRoot)
               parent == JoinSlash(SubSeq(segs, 1, Len(segs) - 1))
               up == List(store, req.src_bucket, parent)
           IN \A i \in 1..Len(up) : up[i].name # segs[Len(segs)]

\* C2: when copy_folder_recursive returns with no errors, every object below
\* the source root has a copy with the same bytes at the same relative path
\* below the destination root
C2_CopyImage ==
    (AtCopyReturn /\ cerrors = << >>) => (CopyImageOf(store) \/ CopyImageOf(store0))

IsPlaceholder(k) == k = DotKeep \/ EndsWith(k, <<SL>> \o DotKeep)

\* p is q or a path inside q
PathInside(p, q) == p = q \/ StartsWith(p, q \o <<SL>>)

\* the destination root is the source root or lies inside it, in the same bucket
DstInsideSrc == req.src_bucket = req.dst_bucket /\ PathInside(DstRoot, SrcRoot)

FilesOnly(st) ==
    Cardinality({ k \in Under(st, req.src_bucket, SrcRoot) : ~IsPlaceholder(k) })

FileMoved == Flash("success", "Moveed file")

\* C4: a single-file move that reports success leaves the source file's
\* original bytes at the destination key and no source key in the source bucket
C4_MoveFile ==
    (FileTransfer /\ req.op = "move" /\ pc = "done" /\ flashes = <<FileMoved>>) =>
        /\ Has(store, req.dst_bucket, dst_full)
        /\ store[req.dst_bucket][dst_full] = store0[req.src_bucket][req.src_path]
        /\ ~Has(store, req.src_bucket, req.src_path)

FailedCall(ops) == \E i \in 1..Len(calls) : calls[i].op \in ops /\ ~calls[i].ok
IssuedCall(ops) == \E i \in 1..Len(calls) : calls[i].op \in ops

\* C5: in a single-file move whose copy succeeded and whose remove of the
\* source failed, destination and source both exist with the original bytes
\* and the only message is 'Copied, but failed to delete source'
C5_CleanupFailure ==
    (FileTransfer /\ pc = "done" /\ FailedCall({"remove"})) =>
        /\ Has(store, req.dst_bucket, dst_full)
        /\ Has(store, req.src_bucket, req.src_path)
        /\ store[req.dst_bucket][dst_full] = store0[req.src_bucket][req.src_path]
        /\ store[req.src_bucket][req.src_path] = store0[req.src_bucket][req.src_path]
        /\ flashes = <<Flash("error", "Copied, but failed to delete source")>>

C5_Witness ==
    /\ FileTransfer /\ pc = "done" /\ FailedCall({"remove"})
    /\ req.dst_bucket # req.src_bucket

\* C6: in a single-file transfer a remove is issued only as third call of a
\* move, on the source key, after a successful download and a successful
\* upload; after a failed download or upload no remove is issued and the
\* source key is as it was
C6_RemoveAfterCopy ==
    FileTransfer =>
        /\ \A i \in 1..Len(calls) :
              calls[i].op = "remove" =>
                 /\ i = 3
                 /\ req.op = "move"
                 /\ calls[i].bucket = req.src_bucket /\ calls[i].key = req.src_path
                 /\ calls[1] = Call("download", req.src_bucket, req.src_path, TRUE)
                 /\ calls[2] = Call("upload", req.dst_bucket, dst_full, TRUE)
        /\ FailedCall({"download", "upload"}) =>
              /\ pc = "done"
              /\ ~IssuedCall({"remove"})
              /\ Has(store, req.src_bucket, req.src_path)
                    = Has(store0, req.src_bucket, req.src_path)
              /\ Has(store, req.src_bucket, req.src_path) =>
                    store[req.src_bucket][req.src_path] = store0[req.src_bucket][req.src_path]

C6_Witness ==
    /\ FileTransfer /\ req.op = "move" /\ pc = "done"
    /\ calls[Len(calls)] = Call("upload", req.dst_bucket, dst_full, FALSE)
    /\ Has(store, req.src_bucket, req.src_path)

\* every source key whose copy failed had a remove issued on it
FailedCopiesRemoved ==
    \A i \in 1..Len(cerrors) :
        \E j \in 1..Len(calls) :
            calls[j] \in { Call("remove", req.src_bucket, cerrors[i].src, ok) : ok \in BOOLEAN }

\* C7: in a folder move, the step in which the copy walk returns, with or
\* without per-file errors, starts delete_prefix_recursive on the source
\* prefix, and once that has returned every source key whose copy failed had
\* a remove issued on it
C7_CleanupRegardless ==
    /\ [][(pc = "copy_walk" /\ ~copyRet /\ copyRet' /\ req.op = "move") =>
            (pc' = "del_walk" /\ stack' = <<Frame(SrcRoot, Empty, "list")>>)]_vars
    /\ []((FolderTransfer /\ req.op = "move" /\ delRet) => FailedCopiesRemoved)

C7_Witness ==
    /\ FolderTransfer /\ req.op = "move" /\ delRet /\ cerrors # << >>
    /\ \E i \in 1..Len(cerrors) :
          /\ Has(store0, req.src_bucket, cerrors[i].src)
          /\ ~Has(store, req.src_bucket, cerrors[i].src)
          /\ ~Has(store, req.dst_bucket, cerrors[i].dst)

\* C8: in a folder move, every object the copy phase uploaded is still in the
\* store during and after the deletion of the source
C8_CleanupKeepsCopies ==
    (FolderTransfer /\ req.op = "move" /\ copyRet) =>
        \A i \in 1..Len(calls) :
            (calls[i].op = "upload" /\ calls[i].ok) =>
                Has(store, calls[i].bucket, calls[i].key)

\* dstPath/basename(srcPath), as a path
BelowDst ==
    LET segs == split_path(req.raw_src) IN
    JoinSlash(split_path(req.raw_dst) \o <<segs[Len(segs)]>>)

\* C9: a folder transfer with a non-empty dstPath hands the copier the
\* destination root dstPath/basename(srcPath), never dstPath itself
C9_FolderDst ==
    (FolderTransfer /\ req.dst_path # Empty) =>
        /\ dst_full = BelowDst
        /\ dst_full # req.dst_path
        /\ (pc = "copy_walk" => stack[1].dst = BelowDst)

C9_Witness ==
    /\ FolderTransfer /\ pc = "copy_walk" /\ Len(stack) = 1 /\ stack[1].phase = "keep"
    /\ req.src_path = kBB /\ req.dst_path = kC
    /\ stack[1].dst = kC \o <<SL>> \o kB

\* C10: a single-file transfer whose submitted dstPath is non-empty and ends
\* with '/' resolves to the key dstPath/basename(srcPath)
C10_FileDirDst ==
    (FileTransfer /\ req.raw_dst # Empty /\ EndsWith(req.raw_dst, <<SL>>)) =>
        dst_full = BelowDst

\* the request fails the validation of its handler
InvalidRequest ==
    \/ /\ req.kind = "transfer"
       /\ \/ req.op \notin {"copy", "move"}
          \/ req.src_bucket = ""
          \/ req.dst_bucket = ""
          \/ Strip(req.raw_src) = Empty
    \/ req.kind \in {"mkdir", "create_bucket"} /\ validate_segment(WsStrip(req.raw_name)) # None
    \/ req.kind = "upload" /\ validate_segment(basename(req.raw_name)) # None

\* C11: a request that fails validation ends with its error message, having
\* issued no store call and left the store as it was
C11_InvalidNoStoreCall ==
    InvalidRequest =>
        /\ pc = "done"
        /\ calls = << >>
        /\ store = store0
        /\ Len(flashes) = 1 /\ flashes[1].cat = "error"

C11_Witness ==
    /\ InvalidRequest /\ pc = "done"
    /\ req.kind = "transfer" /\ req.op = "copy" /\ req.src_bucket = "b1"
    /\ req.dst_bucket = "b2" /\ req.raw_src = <<SL>>
    /\ Has(store, "b1", kBA)

\* C12: a delete-folder request at the empty path or the root ends with an
\* error before any store call, and neither delete-folder nor a folder move
\* runs delete_prefix_recursive on the empty prefix or lists the root for it
C12_NoRootDelete ==
    /\ (req.kind = "delete_prefix" /\ Strip(req.raw_src) = Empty) =>
          /\ pc = "done"
          /\ calls = << >>
          /\ store = store0
          /\ flashes = <<Flash("error", "Nothing to delete at root")>>
    /\ (req.kind \in {"delete_prefix", "transfer"} /\ pc = "del_walk") =>
          /\ prefix # Empty
          /\ \A i \in 1..Len(stack) : stack[i].src # Empty
    /\ req.kind = "delete_prefix" =>
          \A i \in 1..Len(calls) : calls[i].key # Empty

C12_Witness ==
    /\ req.kind = "delete_prefix" /\ req.raw_src = <<SL>> /\ pc = "done"
    /\ Has(store, req.src_bucket, kBA)

\* C13: when delete_prefix_recursive returns from a prefix that held no key
\* when it was called, deleted is 0, errors is empty and the store is as it
\* was, also when the remove of the missing placeholder failed
C13_DeleteIdempotent ==
    (req.kind \in {"delete_prefix", "transfer"} /\ delRet
       /\ Under(del0, req.src_bucket, prefix) = {}) =>
        /\ deleted = 0
        /\ errors = << >>
        /\ store = del0

C13_Witness ==
    /\ req.kind = "delete_prefix" /\ delRet
    /\ Under(del0, req.src_bucket, prefix) = {}
    /\ DOMAIN del0[req.src_bucket] # {}
    /\ FailedCall({"remove"})

\* C14: when delete_prefix_recursive returns with errors, every key in errors
\* is still in the bucket and deleted is the number of keys the call removed
C14_FailedKeysRemain ==
    (req.kind \in {"delete_prefix", "transfer"} /\ delRet /\ errors # << >>) =>
        /\ \A i \in 1..Len(errors) : Has(store, req.src_bucket, errors[i].key)
        /\ deleted = Cardinality((DOMAIN del0[req.src_bucket]) \ (DOMAIN store[req.src_bucket]))

\* C20: in a folder move the delete starts in the step in which the outermost
\* copy activation returns with nothing left to copy, and once a remove has
\* been issued the copy has returned and no download or upload follows
C20_DeleteAfterCopy ==
    /\ [][(pc = "copy_walk" /\ pc' = "del_walk") =>
            (Len(stack) = 1 /\ Top.phase = "loop" /\ Top.entries = << >>)]_vars
    /\ [](FolderTransfer =>
            \A i \in 1..Len(calls) :
                calls[i].op = "remove" =>
                    /\ copyRet /\ pc # "copy_walk"
                    /\ \A j \in i..Len(calls) : calls[j].op \in {"list", "remove"})

C20_Witness ==
    /\ FolderTransfer /\ req.op = "move" /\ pc = "done" /\ delRet
    /\ copied >= 2
    /\ deleted >= 2

\* C15: a listing that failed during a request is propagated: the request ends
\* with an uncaught exception or with an error as its last message, never with
\* a report of success
C15_ListFailurePropagates ==
    (pc = "done" /\ FailedCall({"list"}))
        => \/ exc
           \/ flashes # << >> /\ flashes[Len(flashes)].cat = "error"

\* the classification rule of a listing entry
FolderRule(e) ==
    \/ (~e.hasSize \/ e.size = 0) /\ ~e.hasId /\ ~EndsWith(e.name, DotKeep)
    \/ EndsWith(e.name, <<SL>>)

\* the entries of a response that are folders (or files), by position
FolderIdx(entries) == { i \in 1..Len(entries) : FolderRule(entries[i]) }
FileIdx(entries) == (1..Len(entries)) \ FolderIdx(entries)
RankIn(S, i) == Cardinality({ j \in S : j <= i })

\* C16: list_items puts an entry among the folders exactly when the rule
\* holds of it and among the files otherwise, each entry once, in the order
\* of the response
C16_Classification ==
    (pc = "applied" /\ arg.fn = "list_items") =>
        LET entries == arg.entries
            folders == res.listing.folders
            files == res.listing.files
        IN /\ Len(folders) = Cardinality(FolderIdx(entries))
           /\ Len(files) = Cardinality(FileIdx(entries))
           /\ \A i \in FolderIdx(entries) :
                 LET it == folders[RankIn(FolderIdx(entries), i)]
                 IN it.is_folder /\ it.name = RStrip(entries[i].name)
           /\ \A i \in FileIdx(entries) :
                 LET it == files[RankIn(FileIdx(entries), i)]
                 IN /\ ~it.is_folder /\ it.name = entries[i].name
                    /\ it.hasSize = entries[i].hasSize /\ it.size = entries[i].size

C16_Witness ==
    /\ pc = "applied" /\ arg.fn = "list_items"
    /\ arg.entries = << [name |-> kA \o <<SL>>, hasSize |-> TRUE, size |-> 1, hasId |-> TRUE],
                        [name |-> DotKeep, hasSize |-> FALSE, size |-> 0, hasId |-> FALSE] >>
    /\ Len(res.listing.folders) = 1 /\ res.listing.folders[1].name = kA
    /\ Len(res.listing.files) = 1

\* C17: once mkdir has created folder n in a parent that held nothing, the
\* listing of the parent shows one folder named n and no file
C17_EmptyFolderRoundTrip ==
    ( /\ req.kind = "mkdir" /\ pc = "done"
      /\ flashes # << >> /\ flashes[Len(flashes)].cat = "success"
      /\ Under(store0, req.src_bucket, req.src_path) = {}
      /\ res # NoArg /\ res.ok
      /\ res.bucket = req.src_bucket /\ res.path = req.src_path )
        => /\ Len(res.listing.folders) = 1
           /\ res.listing.folders[1].name = req.name
           /\ res.listing.files = << >>

\* the characters the grammar of a segment names
GrammarChars == Letters \cup Digits \cup Marks \cup {" "}

\* C18: validate_segment accepts a string exactly when it is not empty, not
\* "." or "..", has no "/", starts with a letter, digit or mark and is made
\* of letters, digits, marks and spaces only
C18_ValidateSegment ==
    (pc = "applied" /\ arg.fn = "validate_segment") =>
        LET t == arg.seg IN
        (res.err = None) <=>
            /\ t # Empty
            /\ t \notin { <<".">>, <<".", ".">> }
            /\ \A i \in 1..Len(t) : t[i] # SL
            /\ t[1] \in GrammarChars \ {" "}
            /\ \A i \in 1..Len(t) : t[i] \in GrammarChars

\* no "/" at either end and no two in a row
CleanPath(t) ==
    /\ t # Empty => t[1] # SL /\ t[Len(t)] # SL
    /\ \A i \in 1..(Len(t) - 1) : ~(t[i] = SL /\ t[i + 1] = SL)

\* C19: splitting the join of the split of p gives the split of p again, and
\* a joined path has no leading, trailing or doubled "/"
C19_NormalizeIdempotent ==
    (pc = "applied" /\ arg.fn = "path") =>
        /\ res.again = res.parts
        /\ CleanPath(res.joined)
        /\ CleanPath(res.both)

C19_Witness ==
    /\ pc = "applied" /\ arg.fn = "path"
    /\ arg.p = kA \o <<SL, SL>> \o kB /\ arg.q = <<SL>> \o kA \o <<SL>>
    /\ res.parts = <<kA, kB>>
    /\ res.both = kA \o <<SL>> \o kB \o <<SL>> \o kA

\* the call a step has just issued
NewCall == calls'[Len(calls')]

\* C21: in a folder copy the listing of a folder comes right after the upload
\* of <its destination>/.keep, a child is copied only after both, and a failed
\* placeholder upload leaves the walk running and errors as it was
C21_PlaceholderFirst ==
    [][ (pc = "copy_walk" /\ Len(calls') = Len(calls) + 1) =>
          LET keep == join_path(<<Top.dst, DotKeep>>) IN
          /\ NewCall.op = "list" =>
                /\ calls # << >>
                /\ calls[Len(calls)].op = "upload"
                /\ calls[Len(calls)].bucket = req.dst_bucket
                /\ calls[Len(calls)].key = keep
                /\ NewCall.key = Top.src
          /\ (NewCall.op = "download" \/ (NewCall.op = "upload" /\ Top.phase = "upload")) =>
                \E i \in 1..Len(calls) :
                    /\ calls[i].op = "upload" /\ calls[i].key = keep
                    /\ \E j \in (i + 1)..Len(calls) :
                          calls[j].op = "list" /\ calls[j].key = Top.src /\ calls[j].ok
          /\ (NewCall.op = "upload" /\ Top.phase = "keep" /\ ~NewCall.ok) =>
                /\ pc' = "copy_walk" /\ ~exc'
                /\ cerrors' = cerrors
                /\ stack'[Len(stack')].phase = "list"
      ]_vars

C21_Witness ==
    /\ FolderTransfer /\ pc = "done" /\ copyRet
    /\ copied >= 2 /\ cerrors = << >>
    /\ \E i \in 1..Len(calls) :
          calls[i].op = "upload" /\ ~calls[i].ok /\ EndsWith(calls[i].key, DotKeep)

\* the remove calls issued for key k
RemovesOf(k) == { j \in 1..Len(calls) : calls[j].op = "remove" /\ calls[j].key = k }

\* C22: when delete_prefix_recursive returns, failed removes or not, every
\* file entry it listed has had exactly one remove issued, and deleted plus
\* the number of errors is the number of those entries
C22_OneRemovePerFile ==
    (req.kind \in {"delete_prefix", "transfer"} /\ delRet) =>
        /\ deleted + Len(errors) = Len(visited.d)
        /\ \A i \in 1..Len(visited.d) : Cardinality(RemovesOf(visited.d[i])) = 1

\* a step of the copy walk in which the download or the upload of a file fails
CopyFileFails ==
    /\ pc = "copy_walk" /\ Len(calls') = Len(calls) + 1
    /\ ~NewCall.ok
    /\ NewCall.op = "download" \/ (NewCall.op = "upload" /\ Top.phase = "upload")

\* C23: in a folder copy a failed download or upload of a file is recorded
\* with the source and destination key of that file and the walk goes on with
\* the next entry; when copy_folder_recursive returns, copied plus the number
\* of errors is the number of file entries it listed
C23_CopyContinues ==
    /\ [][ CopyFileFails =>
             LET name == Head(Top.entries).name IN
             /\ pc' = "copy_walk" /\ ~exc'
             /\ Len(stack') = Len(stack)
             /\ SubSeq(stack', 1, Len(stack) - 1) = SubSeq(stack, 1, Len(stack) - 1)
             /\ stack'[Len(stack')].entries = Tail(Top.entries)
             /\ stack'[Len(stack')].phase = "loop"
             /\ copied' = copied
             /\ cerrors' = Append(cerrors, [src |-> join_path(<<Top.src, name>>),
                                            dst |-> join_path(<<Top.dst, RStrip(name)>>)])
         ]_vars
    /\ [](FolderTransfer /\ copyRet =>
             /\ copied + Len(cerrors) = Len(visited.c)
             /\ \A i \in 1..Len(cerrors) :
                   \E j \in 1..Len(visited.c) : visited.c[j] = cerrors[i])

C23_Witness ==
    /\ FolderTransfer /\ pc = "done" /\ copyRet
    /\ Len(cerrors) = 1 /\ copied >= 2
    /\ \E j \in 1..Len(calls) :
          /\ ~calls[j].ok /\ calls[j].op \in {"download", "upload"}
          /\ \E k \in (j + 1)..Len(calls) : calls[k].op = "list" /\ calls[k].ok
          /\ \E k \in (j + 1)..Len(calls) : calls[k].op = "download" /\ calls[k].ok

\* the store a walk started from: the copy walk runs on the store of the
\* request, the delete walk on the store delete_prefix_recursive was called on
WalkStart == IF pc = "copy_walk" THEN store0 ELSE del0

\* C24: a walk descends only into folders the store held when the walk
\* started, so that its recursion ends where the tree of that store ends
C24_WalkEndsWithTree ==
    (pc \in {"copy_walk", "del_walk"}) =>
        \A i \in 2..Len(stack) :
            Under(WalkStart, req.src_bucket, stack[i].src) # {}

\* the form just submitted asks for a folder copy or move, in one bucket, to a
\* destination that resolves to the source or to a path inside it
OverlapSubmitted ==
    /\ pc = "idle"
    /\ req'.kind = "transfer" /\ req'.is_folder
    /\ req'.op \in {"copy", "move"}
    /\ req'.src_bucket # "" /\ req'.src_bucket = req'.dst_bucket
    /\ req'.src_path # Empty
    /\ PathInside(Strip(ResolveDst(TRUE, req'.dst_path, basename(RStrip(req'.src_path)))),
                  Strip(req'.src_path))

\* C25: a folder copy to a destination inside its own source, same bucket,
\* is not rejected: the copy walk starts, and once it has uploaded the
\* destination placeholder, its listing of the source shows what it wrote
C25_OverlapNotGuarded ==
    /\ [][ OverlapSubmitted => pc' = "copy_walk" /\ flashes' = flashes ]_vars
    /\ []( ( /\ FolderTransfer /\ DstInsideSrc
             /\ pc = "copy_walk" /\ Len(stack) = 1 /\ Top.phase = "loop"
             /\ Len(calls) = 2 /\ calls[1].ok )
           => \E i \in 1..Len(Top.entries) :
                 IF DstRoot = SrcRoot
                 THEN Top.entries[i].name = DotKeep /\ ~IsFolderEntry(Top.entries[i])
                 ELSE /\ IsFolderEntry(Top.entries[i])
                      /\ PathInside(DstRoot, join_path(<<SrcRoot, Top.entries[i].name>>)) )

\* the walk has downloaded and uploaded an object that it had written itself
C25_Witness ==
    /\ FolderTransfer /\ DstInsideSrc /\ DstRoot # SrcRoot
    /\ pc = "copy_walk" /\ Len(stack) >= 2
    /\ Len(calls) >= 2
    /\ calls[Len(calls)].op = "upload" /\ calls[Len(calls)].ok
    /\ calls[Len(calls) - 1].op = "download" /\ calls[Len(calls) - 1].ok
    /\ ~Has(store0, req.src_bucket, calls[Len(calls) - 1].key)
    /\ \E i \in 1..(Len(calls) - 2) :
          /\ calls[i].op = "upload" /\ calls[i].ok
          /\ calls[i].key = calls[Len(calls) - 1].key

\* both requests have ended
RaceEnd == pc = "done" /\ other.pc = "done"

\* the objects of bucket b other than folder placeholders
FilesIn(st, b) == { k \in DOMAIN st[b] : ~IsPlaceholder(k) }

WalkerFolders(entries) == SelectSeq(entries, IsFolderEntry)

\* C27: the walkers and the lister agree on every entry of a listing response:
\* the walkers descend into an entry exactly when list_items makes it a Folder
C27_WalkersAgreeWithLister ==
    (pc = "applied" /\ res.fn = "list_items") =>
        /\ \A i \in 1..Len(arg.entries) :
              IsFolderEntry(arg.entries[i]) <=> ItemOf(arg.entries[i]).is_folder
        /\ Len(WalkerFolders(arg.entries)) = Len(res.listing.folders)

\* C28: a delete walk of prefix P issues remove only for keys P/... of its
\* bucket, and after each of its steps, the last one included, every key that
\* does not start with P/ and every key of another bucket is as it was when
\* delete_prefix_recursive was called, and no key has been added
C28_DeleteStaysInSubtree ==
    [][ pc = "del_walk" =>
          /\ (Len(calls') = Len(calls) + 1 /\ NewCall.op = "remove") =>
                /\ NewCall.bucket = req.src_bucket
                /\ StartsWith(NewCall.key, prefix \o <<SL>>)
          /\ DOMAIN store' = DOMAIN del0
          /\ \A b \in DOMAIN del0 :
                /\ DOMAIN store'[b] \subseteq DOMAIN del0[b]
                /\ \A k \in DOMAIN del0[b] :
                      (b # req.src_bucket \/ ~StartsWith(k, prefix \o <<SL>>)) =>
                          k \in DOMAIN store'[b] /\ store'[b][k] = del0[b][k]
      ]_vars

\* delete_prefix of b has returned with one object deleted and one error; the
\* sibling ba and the object a of the root are still there, and so is the
\* object b/a of the other bucket
C28_Witness ==
    /\ req.kind = "delete_prefix" /\ pc = "done" /\ delRet
    /\ prefix = kB /\ req.src_bucket = "b1"
    /\ deleted >= 1 /\ Len(errors) = 1
    /\ Has(del0, "b1", kBa) /\ Has(store, "b1", kBa)
    /\ Has(store, "b1", kA)
    /\ Has(store, "b2", kBA) /\ ~Has(store, "b1", kBA)

====
